---- MODULE Spec2Model ----
(***************************************************************************)
(* DataChat Pro (src/app.py): a Streamlit chat front end to a LangChain    *)
(* SQL agent.  The module models                                           *)
(*   - extract_sql_query: the ordered regular-expression rules, character  *)
(*     by character (texts are sequences of one-character strings);        *)
(*   - the per-session state kept in st.session_state, the process-wide    *)
(*     st.cache_resource cache of setup_ai_agent, and the script runs: one *)
(*     action per kind of interaction that starts a run, and one per       *)
(*     stretch of a run between two places where it waits or can be        *)
(*     stopped;                                                            *)
(*   - get_database_info;                                                  *)
(*   - the query-history append with its 100 -> 50 eviction.               *)
(***************************************************************************)
EXTENDS Integers, Sequences, FiniteSets, TLC

VARIABLES
    scope,            \* what this exploration covers: sessions, inputs, bounds (fixed)
    db_path,          \* per session: the path the sidebar widgets select (main, 449-473)
    messages,         \* per session: st.session_state.messages
    db_engine,        \* per session: st.session_state.db_engine
    db_instance,      \* per session: st.session_state.db_instance
    current_db_path,  \* per session: st.session_state.current_db_path
    query_history,    \* per session: st.session_state.query_history
    analytics,        \* per session: st.session_state.analytics
    current_view,     \* per session: st.session_state.current_view
    process_query,    \* per session: st.session_state['process_query'] (or Absent)
    agent_cache,      \* process-wide: the st.cache_resource store of setup_ai_agent
    agent_runs,       \* process-wide: number of agent.run calls that have ended
    run,              \* per session: where its script run stands, and the run's locals
    last_run,         \* what the most recent step did (session, kind, the call it belongs to)
    response_text,    \* extraction harness: the text handed to extract_sql_query
    sql_query,        \* extraction harness: what extract_sql_query returned
    extract_done,     \* extraction harness: extract_sql_query has returned
    hist,             \* history harness: a query history grown one entry at a time
    hist_next,        \* history harness: the number of the next entry
    info_in,          \* introspection harness: what the database answers
    info_out,         \* introspection harness: what get_database_info returned
    info_done         \* introspection harness: get_database_info has returned

vars == << scope, db_path, messages, db_engine, db_instance, current_db_path,
           query_history, analytics, current_view, process_query, agent_cache,
           agent_runs, run, last_run, response_text, sql_query, extract_done,
           hist, hist_next, info_in, info_out, info_done >>

None == "None"
Absent == "Absent"

\* Python's truth test of an optional string (if error:, if not error:, if
\* agent_error:): None and the empty string are false.
Truthy(x) == x # None /\ x # ""

\* str(e) of a caught exception: a message, or the empty string (an exception
\* raised without arguments).
ErrorTexts == {"error", ""}

Min(S) == CHOOSE x \in S : \A y \in S : x <= y
Max(S) == CHOOSE x \in S : \A y \in S : y <= x

(***************************************************************************)
(* extract_sql_query (src/app.py 223-241)                                  *)
(***************************************************************************)

\* Characters a string literal of the language cannot hold stand as their names.
Backquote == "BACKQUOTE"      \* U+0060
LongS == "U+017F"             \* LATIN SMALL LETTER LONG S
DotlessI == "U+0131"          \* LATIN SMALL LETTER DOTLESS I
DottedI == "U+0130"           \* LATIN CAPITAL LETTER I WITH DOT ABOVE

\* re.IGNORECASE on a str pattern: the letters of the patterns compare after
\* case folding, and the long s counts as an s, the dotless i and the dotted
\* capital I as an i.
LowerCase ==
    [c \in {"A", "C", "D", "E", "I", "L", "N", "P", "Q", "R", "S", "T", "U",
            LongS, DotlessI, DottedI} |->
        CASE c = "A" -> "a" [] c = "C" -> "c" [] c = "D" -> "d" [] c = "E" -> "e"
          [] c = "I" -> "i" [] c = "L" -> "l" [] c = "N" -> "n" [] c = "P" -> "p"
          [] c = "Q" -> "q" [] c = "R" -> "r" [] c = "S" -> "s" [] c = "T" -> "t"
          [] c = "U" -> "u" [] c = LongS -> "s" [] c = DotlessI -> "i"
          [] c = DottedI -> "i"]

Fold(c) == IF c \in DOMAIN LowerCase THEN LowerCase[c] ELSE c

\* The whitespace of str beyond space, \t, \n, \r and \f: the vertical tab, the
\* separators U+001C..U+001F, NEL, the no-break space and the Unicode spaces.
OtherSpaces ==
    {"U+000B", "U+001C", "U+001D", "U+001E", "U+001F", "U+0085", "U+00A0",
     "U+1680", "U+2000", "U+2001", "U+2002", "U+2003", "U+2004", "U+2005",
     "U+2006", "U+2007", "U+2008", "U+2009", "U+200A", "U+2028", "U+2029",
     "U+202F", "U+205F", "U+3000"}

\* \s of the patterns (str patterns, no re.ASCII) and the characters
\* str.strip() removes.
IsSpace(c) == c \in {" ", "\t", "\n", "\r", "\f"} \cup OtherSpaces

Fence == << Backquote, Backquote, Backquote >>
SqlLabel == << "s", "q", "l" >>
KwSelect == << "S", "E", "L", "E", "C", "T" >>
KwInsert == << "I", "N", "S", "E", "R", "T" >>
KwUpdate == << "U", "P", "D", "A", "T", "E" >>
KwDelete == << "D", "E", "L", "E", "T", "E" >>

\* The literal lit occurs in text at position i (1-based), ignoring case.
MatchLit(text, i, lit) ==
    /\ i >= 1
    /\ i + Len(lit) - 1 <= Len(text)
    /\ \A j \in 1..Len(lit) : Fold(text[i + j - 1]) = Fold(lit[j])

\* text[from..to] is whitespace only (vacuously so when from > to).
AllSpace(text, from, to) == \A j \in from..to : IsSpace(text[j])

\* The positions a greedy \s* started at i can stop at: i .. end of the run.
SpaceStops(text, i) == {p \in i..(Len(text) + 1) : AllSpace(text, i, p - 1)}

\* Positions e at which the tail  \s*```  of rules 1 and 2 matches.
FenceTailAt(text, e) ==
    \E c \in e..(Len(text) + 1) : AllSpace(text, e, c - 1) /\ MatchLit(text, c, Fence)

\* Optional statement: Python's None, or the text of a statement.
NoSql == [some |-> FALSE, text |-> << >>]
SomeSql(t) == [some |-> TRUE, text |-> t]

NoMatch == [found |-> FALSE, group |-> << >>]
Found(g) == [found |-> TRUE, group |-> g]

\* r'```sql\s*(.*?)\s*```' attempted at position i.  The first \s* is greedy
\* (longest stop first), the group is lazy (shortest end first).
FencedSqlAt(text, i) ==
    IF ~MatchLit(text, i, Fence \o SqlLabel) THEN NoMatch
    ELSE LET ends(p) == {e \in p..(Len(text) + 1) : FenceTailAt(text, e)}
             starts == {p \in SpaceStops(text, i + 6) : ends(p) # {}}
         IN  IF starts = {} THEN NoMatch
             ELSE LET p == Max(starts)
                      e == Min(ends(p))
                  IN  Found(SubSeq(text, p, e - 1))

\* r'```\s*(SELECT.*?)\s*```' attempted at position i.
FencedSelectAt(text, i) ==
    IF ~MatchLit(text, i, Fence) THEN NoMatch
    ELSE LET ends(p) == {e \in (p + 6)..(Len(text) + 1) : FenceTailAt(text, e)}
             starts == {p \in SpaceStops(text, i + 3) :
                            MatchLit(text, p, KwSelect) /\ ends(p) # {}}
         IN  IF starts = {} THEN NoMatch
             ELSE LET p == Max(starts)
                      e == Min(ends(p))
                  IN  Found(SubSeq(text, p, e - 1))

\* $ without re.MULTILINE: at the end of the text, or before a final newline.
AtDollar(text, e) ==
    \/ e = Len(text) + 1
    \/ e = Len(text) /\ text[e] = "\n"

\* The bare-statement patterns as a bug would have them: \s* for \s+, the
\* keyword need not be followed by whitespace.
BareStatementAtAlt(text, i, kw) ==
    IF ~MatchLit(text, i, kw) THEN NoMatch
    ELSE LET p == Max(SpaceStops(text, i + Len(kw)))
             term(e) == \/ e <= Len(text) /\ text[e] \in {";", "\n"}
                        \/ AtDollar(text, e)
             e == Min({x \in p..(Len(text) + 1) : term(x)})
         IN  IF e <= Len(text) /\ text[e] \in {";", "\n"}
             THEN Found(SubSeq(text, i, e))
             ELSE Found(SubSeq(text, i, e - 1))

\* r'(KW\s+.*?(?:;|\n|$))' attempted at position i: \s+ greedy, .*? lazy, the
\* alternatives tried in the order ';', '\n', '$'.
BareStatementAt(text, i, kw) ==
    IF ~MatchLit(text, i, kw) THEN NoMatch
    ELSE LET k == Len(kw)
             stops == SpaceStops(text, i + k) \ {i + k}
             term(e) == \/ e <= Len(text) /\ text[e] \in {";", "\n"}
                        \/ AtDollar(text, e)
             ends(p) == {e \in p..(Len(text) + 1) : term(e)}
         IN  IF stops = {} THEN NoMatch
             ELSE LET p == Max(stops)
                      e == Min(ends(p))
                  IN  IF e <= Len(text) /\ text[e] \in {";", "\n"}
                      THEN Found(SubSeq(text, i, e))
                      ELSE Found(SubSeq(text, i, e - 1))

\* One pattern of sql_patterns attempted at position i.
PatternAt(n, text, i) ==
    CASE n = 1 -> FencedSqlAt(text, i)
      [] n = 2 -> FencedSelectAt(text, i)
      [] n = 3 -> BareStatementAt(text, i, KwSelect)
      [] n = 4 -> BareStatementAt(text, i, KwInsert)
      [] n = 5 -> BareStatementAt(text, i, KwUpdate)
      [] n = 6 -> BareStatementAt(text, i, KwDelete)

\* The order of the list sql_patterns.
SqlPatternsAlt == << 3, 1, 2, 4, 5, 6 >>
sql_patterns == << 1, 2, 3, 4, 5, 6 >>

\* re.findall(pattern, text)[0]: the match at the leftmost position that has one.
FirstMatch(n, text) ==
    LET try == [i \in 1..(Len(text) + 1) |-> PatternAt(n, text, i)]
        at == {i \in DOMAIN try : try[i].found}
    IN  IF at = {} THEN NoMatch ELSE try[Min(at)]

\* str.strip()
Strip(s) ==
    LET keep == {j \in 1..Len(s) : ~IsSpace(s[j])}
    IN  IF keep = {} THEN << >> ELSE SubSeq(s, Min(keep), Max(keep))

\* Lines 237-238, as a bug would have them: every trailing semicolon goes.
DropSemicolonAlt(s) ==
    SubSeq(s, 1, Max({0} \cup {i \in 1..Len(s) : s[i] # ";"}))

\* Lines 237-238: if sql_query.endswith(';'): sql_query = sql_query[:-1]
DropSemicolon(s) ==
    IF Len(s) > 0 /\ s[Len(s)] = ";" THEN SubSeq(s, 1, Len(s) - 1) ELSE s

\* Lines 233-241: the first pattern with a match decides; None when none has.
extract_sql_query(text) ==
    LET matches == [k \in 1..Len(sql_patterns) |-> FirstMatch(sql_patterns[k], text)]
        hit == {k \in DOMAIN matches : matches[k].found}
    IN  IF hit = {} THEN NoSql
        ELSE SomeSql(DropSemicolon(Strip(matches[Min(hit)].group)))

RECURSIVE Concat(_)
Concat(parts) ==
    IF parts = << >> THEN << >> ELSE Head(parts) \o Concat(Tail(parts))

(***************************************************************************)
(* get_database_info (src/app.py 138-164)                                  *)
(***************************************************************************)

\* What the database answers during one call (env):
\*   inspect    : "ok" when inspect(engine) and get_table_names() succeed,
\*                else the str(e) of the exception caught at line 163
\*   tables     : the table names, in the order get_table_names() gives them
\*   count[t]   : SELECT COUNT(*) on t succeeds (ok) with the scalar n
\*   columns[t] : inspector.get_columns(t) succeeds (ok) with the columns cols

\* Line 143: schema_info = {}
NoSchema == [t \in {} |-> [columns |-> << >>, row_count |-> 0]]

\* Line 159: the entry of a table whose introspection failed.
FailedEntry == [columns |-> << >>, row_count |-> 0]

\* Lines 146-159 as a bug would have them: a failing table is skipped.
InfoTableAlt(env, t, acc) ==
    IF ~env.count[t].ok THEN acc
    ELSE IF ~env.columns[t].ok THEN
        [schema_info |-> acc.schema_info,
         total_records |-> acc.total_records + env.count[t].n]
    ELSE
        [schema_info |-> [x \in DOMAIN acc.schema_info \cup {t} |->
                            IF x = t
                            THEN [columns |-> env.columns[t].cols,
                                  row_count |-> env.count[t].n]
                            ELSE acc.schema_info[x]],
         total_records |-> acc.total_records + env.count[t].n]

\* Lines 146-159, the body of the loop for table t, on the schema_info and
\* total_records built so far.  total_records is raised at line 151, before
\* the columns are listed.
InfoTable(env, t, acc) ==
    IF ~env.count[t].ok THEN
        [schema_info |-> [x \in DOMAIN acc.schema_info \cup {t} |->
                            IF x = t THEN FailedEntry ELSE acc.schema_info[x]],
         total_records |-> acc.total_records]
    ELSE IF ~env.columns[t].ok THEN
        [schema_info |-> [x \in DOMAIN acc.schema_info \cup {t} |->
                            IF x = t THEN FailedEntry ELSE acc.schema_info[x]],
         total_records |-> acc.total_records + env.count[t].n]
    ELSE
        [schema_info |-> [x \in DOMAIN acc.schema_info \cup {t} |->
                            IF x = t
                            THEN [columns |-> env.columns[t].cols,
                                  row_count |-> env.count[t].n]
                            ELSE acc.schema_info[x]],
         total_records |-> acc.total_records + env.count[t].n]

\* Lines 146-159: the loop over tables[k..].
RECURSIVE InfoLoop(_, _, _)
InfoLoop(env, k, acc) ==
    IF k > Len(env.tables) THEN acc
    ELSE InfoLoop(env, k + 1, InfoTable(env, env.tables[k], acc))

\* get_database_info, lines 138-164.
get_database_info(env) ==
    IF env.inspect # "ok"
    THEN [schema_info |-> NoSchema, total_records |-> 0, error |-> env.inspect]
    ELSE LET r == InfoLoop(env, 1, [schema_info |-> NoSchema, total_records |-> 0])
         IN  [schema_info |-> r.schema_info, total_records |-> r.total_records,
              error |-> None]

(***************************************************************************)
(* Session state and its helpers                                           *)
(***************************************************************************)

AllSessions == {"s1", "s2"}
Paths == {"student.db", "uploaded.db"}
ApiKeys == {"key1", "key2"}
NoKey == ""
Questions == {"List table names", "Count total records"}
\* The texts of the suggestion buttons (lines 640-652) the model offers.
Suggestions == {"List table names"}
Views == {"chat", "schema", "insights", "overview"}

\* Bounds of the exploration.
MaxRuns == 2       \* agent.run calls per process
MaxMessages == 5   \* length of a session's message log
MaxMessagesShared == 3   \* the same, where two sessions are explored together
MaxRunsShared == 1       \* agent.run calls, where two sessions are explored together

\* Lines 305 and 323: execution_time is the difference of two readings of
\* time.time(), the wall clock, which can be set back between them: the
\* difference is negative, zero or positive (in whole units).
ExecutionTimes == {-1, 0, 1}

\* Program constants of the history eviction (lines 395 and 396).
HistCap == 100
HistKeep == 50

\* A connected database: the engine / SQLDatabase pair setup_database builds.
\* id tells two connections to the same path apart.
NoInst == [path |-> None, id |-> 0]
Inst(p, n) == [path |-> p, id |-> n]

\* init_session_state, lines 99-103.
WelcomeMessage ==
    [role |-> "assistant", content |-> "Welcome to DataChat Pro!"]

\* init_session_state, lines 115-119.
InitialAnalytics ==
    [total_queries |-> 0, successful_queries |-> 0, total_response_time |-> 0]

\* The texts agent.run may return: one with a fenced statement, one without SQL.
Responses == {"fenced answer", "plain answer"}
ResponseText(r) ==
    IF r = "fenced answer"
    THEN Concat(<< Fence \o SqlLabel, << "\n" >>, << "s", "e", "l", "e", "c", "t" >>,
                   << " " >>, << "x" >>, << ";" >>, << "\n" >>, Fence >>)
    ELSE << "x" >>

\* An entry of the st.cache_resource store: absent, or the cached return value
\* of setup_ai_agent, (agent, None) or (None, str(e)).
NoEntry == [state |-> "absent", bound |-> NoInst, error |-> None]
AgentEntry(db) == [state |-> "agent", bound |-> db, error |-> None]
ErrorEntry(text) == [state |-> "error", bound |-> NoInst, error |-> text]
EmptyCache == [k \in ApiKeys |-> NoEntry]

\* The position of a session's script run and what the run holds in its
\* widgets and local variables.
\*   pc       : "idle" (no run), or where the run waits or can be stopped:
\*              "connecting" (lines 479-484), "connected" (492-513), "lookup"
\*              (298-307), "chat_input" (310, 702), "running" (320-321),
\*              "returned" (327), "failed" (402), "executing" (341-374)
\*   api_key  : the value of the key input in this run (line 429)
\*   button   : the sidebar or suggestion button pressed ("none", "view",
\*              "clear", "suggest"), arg its view or its text
\*   chat_in  : the text submitted in st.chat_input and not yet processed
\*   input    : user_input of the process_user_query call in progress,
\*              appended whether the call appended the user message
\*   agent    : what setup_ai_agent returned to the call (line 307)
\*   response, elapsed : what agent.run returned and execution_time (321-323)
IdleRun ==
    [pc |-> "idle", api_key |-> NoKey, button |-> "none", arg |-> None, chat_in |-> None,
     input |-> None, appended |-> FALSE, agent |-> NoEntry, response |-> None,
     elapsed |-> 0]

\* What the most recent step did (kind), and in which session.  The steps of
\* a process_user_query call carry the call's user_input and whether the call
\* appended the user message; an aborted call tells whether the key was empty.
Step(s, kind) ==
    [session |-> s, kind |-> kind, input |-> None, no_key |-> FALSE, appended |-> FALSE]
CallStep(s, kind, input, appended) ==
    [session |-> s, kind |-> kind, input |-> input, no_key |-> FALSE,
     appended |-> appended]
Aborted(s, input, api_key) ==
    [session |-> s, kind |-> "aborted", input |-> input, no_key |-> (api_key = NoKey),
     appended |-> FALSE]

\* A fresh object identity: one no live object carries.
IdsInUse ==
    {db_instance[s].id : s \in AllSessions} \cup {db_engine[s].id : s \in AllSessions}
        \cup {agent_cache[k].bound.id : k \in ApiKeys}
        \cup {run[s].agent.bound.id : s \in AllSessions}
FreshId == Min((1..(3 * Cardinality(AllSessions) + Cardinality(ApiKeys) + 3)) \ IdsInUse)

\* setup_database, lines 127-135, when it returns: result is "ok" when the
\* connection and the probe succeed, else the str(e) of the exception caught
\* at line 134.
setup_database(p, result) ==
    IF result = "ok"
    THEN [engine |-> Inst(p, FreshId), db |-> Inst(p, FreshId), error |-> None]
    ELSE [engine |-> NoInst, db |-> NoInst, error |-> result]

\* main, line 477: the selected path differs from the connected one.
PathChanged(s, p) == p # None /\ current_db_path[s] # p

\* Line 478 as a bug would have it: the agent cache is left as it is.
ClearAgentCacheAlt(cache) == cache

\* Line 478: setup_ai_agent.clear() empties the whole store.
ClearAgentCache(cache) == EmptyCache

\* Lines 483-491: what main stores of setup_database's return value r.
StoreConnection(r, p) ==
    IF Truthy(r.error)
    THEN [engine |-> NoInst, db |-> NoInst, path |-> None]
    ELSE [engine |-> r.engine, db |-> r.db, path |-> p]

\* setup_ai_agent under st.cache_resource, lines 196-220.  The parameter _db is
\* not part of the cache key (its name starts with an underscore): the key is
\* api_key alone.  On a miss the body runs and its return value is stored,
\* the error return included.  construct is "ok" when ChatGroq and
\* create_sql_agent succeed, else the str(e) of the exception caught at 219.
setup_ai_agent(cache, db, api_key, construct) ==
    IF cache[api_key].state # "absent"
    THEN [cache |-> cache, entry |-> cache[api_key]]
    ELSE LET e == IF construct = "ok" THEN AgentEntry(db) ELSE ErrorEntry(construct)
         IN  [cache |-> [cache EXCEPT ![api_key] = e], entry |-> e]

UserMessage(user_input) == [role |-> "user", content |-> user_input]

\* Lines 290-296: the user message is appended unless the log ends with it.
AppendUserMessage(msgs, user_input) ==
    IF \/ msgs = << >>
       \/ msgs[Len(msgs)].content # user_input
       \/ msgs[Len(msgs)].role # "user"
    THEN Append(msgs, UserMessage(user_input))
    ELSE msgs

\* Lines 387-396, as a bug would have them: the history is never cut.
HistoryAppendNoCapAlt(h, entry) == Append(h, entry)

\* Lines 387-396, as a bug would have them: the oldest entries are kept.
HistoryAppendAlt(h, entry) ==
    LET h2 == Append(h, entry)
    IN  IF Len(h2) > HistCap THEN SubSeq(h2, 1, HistKeep) ELSE h2

\* Lines 387-396: append, then cut a history longer than 100 to its last 50.
HistoryAppend(h, entry) ==
    LET h2 == Append(h, entry)
    IN  IF Len(h2) > HistCap THEN SubSeq(h2, Len(h2) - HistKeep + 1, Len(h2)) ELSE h2

\* Lines 329-331, as a bug would have them: successful_queries is not raised.
RecordSuccessAlt(a, execution_time) ==
    [total_queries |-> a.total_queries + 1,
     successful_queries |-> a.successful_queries,
     total_response_time |-> a.total_response_time + execution_time]

\* Lines 329-331.
RecordSuccess(a, execution_time) ==
    [total_queries |-> a.total_queries + 1,
     successful_queries |-> a.successful_queries + 1,
     total_response_time |-> a.total_response_time + execution_time]

\* What the environment can answer:
\*   setup_database       : ConnectResults, or an exception line 134 does not
\*                          catch (a BaseException)
\*   ChatGroq, create_sql_agent : ConstructResults
\*   agent.run            : a response of the scope, or "raise"
\*   execute_sql_query    : ExecResults (a table with rows, an empty table, an error)
ConnectResults == {"ok"} \cup ErrorTexts
ConstructResults == {"ok"} \cup ErrorTexts
Outcomes == Responses \cup {"raise"}
ExecResults == {"rows", "empty", "error"}

\* Lines 281-288, as a bug would have them: the connection is not checked.
ChecksPassAlt(c, api_key) == api_key # NoKey

\* Lines 281-288: the credential and the connection are present.
ChecksPass(c, api_key) ==
    /\ api_key # NoKey
    /\ c.engine # NoInst
    /\ c.db # NoInst

(***************************************************************************)
(* Script runs (main, lines 414-724).  Every user interaction starts a run *)
(* of the session's script, sidebar first; a run in progress is stopped at *)
(* the st.* call it has reached and the new run takes its place.  Between  *)
(* two such calls a run works on its own session state; the agent cache is *)
(* shared with the runs of the other sessions.                             *)
(***************************************************************************)

\* The state a run of session s works on.
Session(s) ==
    [messages |-> messages[s], query_history |-> query_history[s],
     analytics |-> analytics[s], engine |-> db_engine[s], db |-> db_instance[s],
     path |-> current_db_path[s], view |-> current_view[s],
     pending |-> process_query[s], cache |-> agent_cache, runs |-> agent_runs,
     run |-> run[s], event |-> last_run]

\* The script has reached its end, st.rerun() or a return that ends the run.
EndRun(c) == [c EXCEPT !.run = IdleRun]

\* process_user_query, lines 281-298: the checks and the user message.  When
\* the checks pass the call goes on to setup_ai_agent (pc "lookup").
BeginQuery(s, c, user_input) ==
    IF ~ChecksPass(c, c.run.api_key)
    THEN [c EXCEPT !.event = Aborted(s, user_input, c.run.api_key)]
    ELSE LET msgs1 == AppendUserMessage(c.messages, user_input)
         IN  [c EXCEPT !.messages = msgs1,
                       !.run.pc = "lookup",
                       !.run.input = user_input,
                       !.run.appended = (msgs1 # c.messages),
                       !.event = [CallStep(s, "called", user_input, msgs1 # c.messages)
                                    EXCEPT !.no_key = (c.run.api_key = NoKey)]]

\* Lines 702-705: the text submitted in the chat input, if any, is processed.
ChatInput(s, c) ==
    IF c.run.chat_in = None THEN EndRun(c)
    ELSE LET r == BeginQuery(s, [c EXCEPT !.run.chat_in = None], c.run.chat_in)
         IN  IF r.run.pc = "lookup" THEN r ELSE EndRun(r)

\* Lines 696-699: the queued suggestion is removed and processed.
ProcessQueued(s, c) ==
    IF c.pending = Absent THEN ChatInput(s, c)
    ELSE LET r == BeginQuery(s, [c EXCEPT !.pending = Absent], c.pending)
         IN  IF r.run.pc = "lookup" THEN r ELSE ChatInput(s, r)

\* Lines 626-705, the chat view.  A pressed suggestion button is seen only
\* while the buttons are drawn (line 636) and queues its text unless one is
\* queued already (lines 658-662).
ChatView(s, c) ==
    IF c.run.button = "suggest" /\ c.engine # NoInst /\ c.pending = Absent
    THEN EndRun([c EXCEPT !.pending = c.run.arg,
                          !.event = CallStep(s, "queued", c.run.arg, FALSE)])
    ELSE ProcessQueued(s, c)

\* Lines 565-705: only the chat view processes anything.
MainView(s, c) == IF c.view = "chat" THEN ChatView(s, c) ELSE EndRun(c)

\* Line 535, as a bug would have it: the whole log is dropped.
ClearMessagesAlt(msgs) == << >>

\* Line 535: st.session_state.messages[:1]
ClearMessages(msgs) == SubSeq(msgs, 1, IF Len(msgs) < 1 THEN Len(msgs) ELSE 1)

\* Lines 534-537: Clear Chat History.
ClearButton(c) ==
    [c EXCEPT !.messages = ClearMessages(c.messages), !.view = "chat"]

\* Lines 513-705: the sidebar buttons, then the main view.  A pressed view
\* button or Clear Chat History ends the run at st.rerun().
AfterConnection(s, c0) ==
    LET c == [c0 EXCEPT !.event = Step(s, "none")]
    IN  IF c.run.button = "view"
        THEN EndRun([c EXCEPT !.view = c.run.arg, !.event.kind = "view"])
        ELSE IF c.run.button = "clear"
        THEN EndRun([ClearButton(c) EXCEPT !.event.kind = "clear"])
        ELSE MainView(s, c)

HarnessUnchanged == UNCHANGED << scope, response_text, sql_query, extract_done,
                                 hist, hist_next, info_in, info_out, info_done >>

\* The state a step of a run of s leaves; p is the path the widgets select.
Commit(s, p, c) ==
    /\ c.runs <= scope.max_runs
    /\ Len(c.messages) <= scope.max_messages
    /\ db_path' = [db_path EXCEPT ![s] = p]
    /\ db_engine' = [db_engine EXCEPT ![s] = c.engine]
    /\ db_instance' = [db_instance EXCEPT ![s] = c.db]
    /\ current_db_path' = [current_db_path EXCEPT ![s] = c.path]
    /\ messages' = [messages EXCEPT ![s] = c.messages]
    /\ query_history' = [query_history EXCEPT ![s] = c.query_history]
    /\ analytics' = [analytics EXCEPT ![s] = c.analytics]
    /\ process_query' = [process_query EXCEPT ![s] = c.pending]
    /\ current_view' = [current_view EXCEPT ![s] = c.view]
    /\ agent_cache' = c.cache
    /\ agent_runs' = c.runs
    /\ run' = [run EXCEPT ![s] = c.run]
    /\ last_run' = c.event
    /\ HarnessUnchanged

\* A new run of s, lines 414-478: the run in progress, if any, is stopped
\* where it is.  On a changed path the agent cache is cleared and the run
\* waits for the connection; else it goes on to the buttons and the view.
StartRun(s, p, api_key, button, arg, chat_in) ==
    LET c == [Session(s) EXCEPT
                !.run = [IdleRun EXCEPT !.api_key = api_key, !.button = button,
                                        !.arg = arg, !.chat_in = chat_in]]
    IN  IF PathChanged(s, p)
        THEN Commit(s, p, [c EXCEPT
                            !.cache = ClearAgentCache(c.cache),
                            !.run.pc = "connecting",
                            !.event = Step(s, "connecting")])
        ELSE Commit(s, p, AfterConnection(s, c))

\* A run caused by the source widgets (p is the path they now select), by a
\* new key or by st.rerun(): no button is pressed, nothing is submitted.
SourceRun(s, p, api_key) == StartRun(s, p, api_key, "none", None, None)

\* Lines 517-532: one of the four view buttons.
ViewButton(s, v, api_key) == StartRun(s, db_path[s], api_key, "view", v, None)

\* Lines 534-537: the button Clear Chat History.
ClearClick(s, api_key) == StartRun(s, db_path[s], api_key, "clear", None, None)

\* Lines 654-662: a suggestion button, on the screen in the chat view while
\* connected.
SuggestionButton(s, sug, api_key) ==
    /\ current_view[s] = "chat"
    /\ db_engine[s] # NoInst
    /\ StartRun(s, db_path[s], api_key, "suggest", sug, None)

\* Lines 702-705: a question submitted in the chat input of the chat view.
ChatSubmit(s, q, api_key) ==
    /\ current_view[s] = "chat"
    /\ StartRun(s, db_path[s], api_key, "none", None, q)

\* Lines 480-491: setup_database returns and main stores the connection; an
\* exception line 134 does not catch ends the run where it is.
Connect(s, result) ==
    /\ run[s].pc = "connecting"
    /\ LET c == Session(s)
       IN  IF result = "raise"
           THEN Commit(s, db_path[s],
                       EndRun([c EXCEPT !.event = Step(s, "connect_raised")]))
           ELSE LET r == setup_database(db_path[s], result)
                    st == StoreConnection(r, db_path[s])
                    kind == IF result = "ok" THEN "connected"
                            ELSE IF Truthy(r.error) THEN "connect_failed"
                            ELSE "connect_silent"
                IN  Commit(s, db_path[s],
                           [c EXCEPT !.engine = st.engine, !.db = st.db, !.path = st.path,
                                     !.run.pc = "connected",
                                     !.event = Step(s, kind)])

\* Lines 492-705 of a run that has connected: the rest of the sidebar and
\* the main view.
Continue(s) ==
    /\ run[s].pc = "connected"
    /\ Commit(s, db_path[s], AfterConnection(s, Session(s)))

\* process_user_query, lines 307-320: the agent is looked up or built.  A
\* true agent_error ends the call (line 311) and main goes on to the chat
\* input; else the call goes on to agent.run with what it was given.
Lookup(s, construct) ==
    /\ run[s].pc = "lookup"
    /\ LET c == Session(s)
           setup == setup_ai_agent(c.cache, c.db, c.run.api_key, construct)
           called == [c EXCEPT !.cache = setup.cache]
       IN  IF Truthy(setup.entry.error)
           THEN LET r == [called EXCEPT
                            !.event = CallStep(s, "agent_error", c.run.input, c.run.appended)]
                IN  Commit(s, db_path[s],
                           IF c.run.chat_in = None THEN EndRun(r)
                           ELSE [r EXCEPT !.run.pc = "chat_input",
                                          !.run.input = None,
                                          !.run.appended = FALSE])
           ELSE Commit(s, db_path[s],
                       [called EXCEPT !.run.pc = "running",
                                      !.run.agent = setup.entry,
                                      !.event = CallStep(s, "running", c.run.input, c.run.appended)])

\* Lines 702-705 after a queued question ended at line 311.
ChatInputAfterQueued(s) ==
    /\ run[s].pc = "chat_input"
    /\ Commit(s, db_path[s], ChatInput(s, Session(s)))

\* The assistant message of lines 376-385.
AssistantMessage(response, execution_time, sql, df) ==
    [role |-> "assistant", content |-> response, execution_time |-> execution_time,
     sql_query |-> sql, dataframe |-> df]

\* The assistant message of lines 403-408.
ErrorMessage ==
    [role |-> "assistant", content |-> "Error processing query", error |-> TRUE]

\* Lines 385-397 and 411: the answer goes to the log and to the history, and
\* the run ends at st.rerun().
RecordAnswer(c, sql, df) ==
    EndRun([c EXCEPT
        !.messages = Append(c.messages,
                            AssistantMessage(c.run.response, c.run.elapsed, sql, df)),
        !.query_history = HistoryAppend(c.query_history,
            [query |-> c.run.input, response |-> c.run.response,
             execution_time |-> c.run.elapsed, sql_query |-> sql])])

\* Lines 321-327 and 399-402: agent.run ends.  With no agent (the cached
\* return value is (None, '')) the call of run raises at once, whatever the
\* environment offers.  A response is about to be written (line 327), an
\* exception about to be reported (line 402); nothing is recorded yet.
AgentReturns(s, outcome, elapsed) ==
    /\ run[s].pc = "running"
    /\ LET c == Session(s)
           real == c.run.agent.state = "agent"
           result == IF real THEN outcome ELSE "raise"
           ran == IF real THEN 1 ELSE 0
       IN  IF result = "raise"
           THEN Commit(s, db_path[s],
                       [c EXCEPT
                         !.runs = c.runs + ran,
                         !.run.pc = "failed",
                         !.event = CallStep(s, "failed", c.run.input, c.run.appended)])
           ELSE Commit(s, db_path[s],
                       [c EXCEPT
                         !.runs = c.runs + 1,
                         !.run.pc = "returned",
                         !.run.response = result,
                         !.run.elapsed = elapsed,
                         !.event = CallStep(s, "returned", c.run.input, c.run.appended)])

\* Lines 329-341: the response is counted (329-331) and its statement
\* extracted (337): a non-empty statement is shown and executed next, else
\* the answer is recorded.
RecordResponse(s) ==
    /\ run[s].pc = "returned"
    /\ LET c == Session(s)
           sql == scope.extracted[c.run.response]                      \* line 337
           counted == [c EXCEPT
                        !.analytics = RecordSuccess(c.analytics, c.run.elapsed),
                        !.event = CallStep(s, "answered", c.run.input, c.run.appended)]
       IN  IF sql.some /\ sql.text # << >>                             \* line 340
           THEN Commit(s, db_path[s], [counted EXCEPT !.run.pc = "executing"])
           ELSE Commit(s, db_path[s], RecordAnswer(counted, sql, None))

\* Lines 403-411: the exception is logged as an assistant message and the run
\* ends at st.rerun().
LogError(s) ==
    /\ run[s].pc = "failed"
    /\ LET c == Session(s)
       IN  Commit(s, db_path[s],
                  EndRun([c EXCEPT
                            !.messages = Append(c.messages, ErrorMessage),
                            !.event = CallStep(s, "raised", c.run.input, c.run.appended)]))

\* Lines 341-397 and 411: the extracted statement is shown and executed, and
\* the answer recorded with the table execute_sql_query gave, if it has rows.
Execute(s, exec) ==
    /\ run[s].pc = "executing"
    /\ LET c == Session(s)
           sql == scope.extracted[c.run.response]
           df == IF exec = "rows" THEN "df" ELSE None
       IN  Commit(s, db_path[s],
                  RecordAnswer([c EXCEPT !.event = CallStep(s, "executed", c.run.input, c.run.appended)],
                               sql, df))

\* The steps of the runs, one disjunct per kind of step.
SourceRunStep ==
    \E s \in scope.sessions, p \in scope.paths \cup {None}, api_key \in scope.keys :
        SourceRun(s, p, api_key)

ViewButtonStep ==
    \E s \in scope.sessions, v \in scope.views, api_key \in scope.keys :
        ViewButton(s, v, api_key)

ClearButtonStep ==
    \E s \in scope.sessions, api_key \in scope.keys :
        ClearClick(s, api_key)

SuggestionButtonStep ==
    \E s \in scope.sessions, sug \in Suggestions, api_key \in scope.keys :
        SuggestionButton(s, sug, api_key)

ChatSubmitStep ==
    \E s \in scope.sessions, q \in scope.questions, api_key \in scope.keys :
        ChatSubmit(s, q, api_key)

ConnectStep ==
    \E s \in scope.sessions, result \in scope.connects : Connect(s, result)

ContinueStep ==
    \E s \in scope.sessions : Continue(s)

LookupStep ==
    \E s \in scope.sessions, construct \in scope.constructs : Lookup(s, construct)

ChatInputStep ==
    \E s \in scope.sessions : ChatInputAfterQueued(s)

AgentReturnsStep ==
    \E s \in scope.sessions, outcome \in scope.outcomes, elapsed \in scope.elapsed :
        AgentReturns(s, outcome, elapsed)

RecordResponseStep ==
    \E s \in scope.sessions : RecordResponse(s)

LogErrorStep ==
    \E s \in scope.sessions : LogError(s)

ExecuteStep ==
    \E s \in scope.sessions, exec \in ExecResults : Execute(s, exec)

Next ==
    \/ SourceRunStep
    \/ ViewButtonStep
    \/ ClearButtonStep
    \/ SuggestionButtonStep
    \/ ChatSubmitStep
    \/ ConnectStep
    \/ ContinueStep
    \/ LookupStep
    \/ ChatInputStep
    \/ AgentReturnsStep
    \/ RecordResponseStep
    \/ LogErrorStep
    \/ ExecuteStep

\* init_session_state (lines 97-122) for every session; nothing cached, nothing run.
SessionInit ==
    /\ db_path = [s \in AllSessions |-> None]
    /\ messages = [s \in AllSessions |-> << WelcomeMessage >>]
    /\ db_engine = [s \in AllSessions |-> NoInst]
    /\ db_instance = [s \in AllSessions |-> NoInst]
    /\ current_db_path = [s \in AllSessions |-> None]
    /\ query_history = [s \in AllSessions |-> << >>]
    /\ analytics = [s \in AllSessions |-> InitialAnalytics]
    /\ current_view = [s \in AllSessions |-> "chat"]
    /\ process_query = [s \in AllSessions |-> Absent]
    /\ agent_cache = EmptyCache
    /\ agent_runs = 0
    /\ run = [s \in AllSessions |-> IdleRun]
    /\ last_run = Step(None, "none")

\* What an exploration covers: the sessions, what their users can enter
\* (paths, keys, questions, views), what the environment can answer
\* (connects, constructs, outcomes, elapsed) and the bounds.  extracted holds,
\* for every response the agent can return in it, what extract_sql_query
\* makes of the response's text; line 337 reads it from there.
Scope(r) ==
    [sessions |-> r.sessions, paths |-> r.paths, keys |-> r.keys,
     questions |-> r.questions, views |-> r.views, connects |-> r.connects,
     constructs |-> r.constructs, outcomes |-> r.outcomes, elapsed |-> r.elapsed,
     max_runs |-> r.max_runs, max_messages |-> r.max_messages,
     extracted |-> [x \in r.outcomes \cap Responses |->
                        extract_sql_query(ResponseText(x))]]

\* The harnesses below run no session.
NoScope ==
    Scope([sessions |-> {}, paths |-> {}, keys |-> {}, questions |-> {}, views |-> {},
           connects |-> {}, constructs |-> {}, outcomes |-> {}, elapsed |-> {},
           max_runs |-> 0, max_messages |-> 0])

NoInfo == [schema_info |-> NoSchema, total_records |-> 0, error |-> None]

InfoIdle ==
    /\ info_in = [inspect |-> "error", tables |-> << >>]
    /\ info_out = NoInfo
    /\ info_done = FALSE

HarnessIdle ==
    /\ response_text = << >>
    /\ sql_query = NoSql
    /\ extract_done = FALSE
    /\ hist = << >>
    /\ hist_next = 1
    /\ InfoIdle

\* One browser session with one data source and one credential, entered or
\* left empty: every interaction, every view, answers with and without a
\* statement, and every failure.
Init ==
    /\ scope = Scope([sessions |-> {"s1"}, paths |-> {"student.db"},
                      keys |-> {"key1", NoKey},
                      questions |-> {"List table names"}, views |-> Views,
                      connects |-> ConnectResults \cup {"raise"},
                      constructs |-> ConstructResults, outcomes |-> Outcomes,
                      elapsed |-> ExecutionTimes,
                      max_runs |-> MaxRuns, max_messages |-> MaxMessages])
    /\ SessionInit
    /\ HarnessIdle

Spec == Init /\ [][Next]_vars

\* One browser session that changes data sources: questions with and without
\* a credential, view changes, Clear Chat History, connections and agent
\* constructions that succeed or fail.
InitSwitch ==
    /\ scope = Scope([sessions |-> {"s1"}, paths |-> Paths, keys |-> {"key1", NoKey},
                      questions |-> {"List table names"}, views |-> {"chat", "schema"},
                      connects |-> ConnectResults \cup {"raise"},
                      constructs |-> ConstructResults,
                      outcomes |-> {"plain answer", "raise"},
                      elapsed |-> ExecutionTimes,
                      max_runs |-> MaxRuns, max_messages |-> MaxMessages])
    /\ SessionInit
    /\ HarnessIdle

NextSwitch ==
    \/ SourceRunStep
    \/ ViewButtonStep
    \/ ClearButtonStep
    \/ ChatSubmitStep
    \/ ConnectStep
    \/ ContinueStep
    \/ LookupStep
    \/ AgentReturnsStep
    \/ RecordResponseStep
    \/ LogErrorStep

SpecSwitch == InitSwitch /\ [][NextSwitch]_vars

\* Two browser sessions served by the same process, with the same credential:
\* their connections and their questions, interleaved, agent constructions
\* succeeding or failing, up to the end of the first agent.run call.
InitShared ==
    /\ scope = Scope([sessions |-> AllSessions, paths |-> Paths, keys |-> {"key1"},
                      questions |-> {"List table names"}, views |-> {"chat"},
                      connects |-> {"ok"}, constructs |-> ConstructResults,
                      outcomes |-> {"plain answer"}, elapsed |-> ExecutionTimes,
                      max_runs |-> MaxRunsShared, max_messages |-> MaxMessagesShared])
    /\ SessionInit
    /\ HarnessIdle

NextShared ==
    \/ SourceRunStep
    \/ ChatSubmitStep
    \/ ConnectStep
    \/ ContinueStep
    \/ LookupStep
    \/ AgentReturnsStep
    \/ RecordResponseStep
    \/ LogErrorStep

SpecShared == InitShared /\ [][NextShared]_vars

\* One browser session kept busy: enough answered questions to fill the query
\* history past its cap, with reconnections after failed connections,
\* stopped runs and Clear Chat History in between.  Every answer takes the
\* same time, so that the histories differ in length only.
MaxRunsLong == 102
MaxMessagesLong == 3

InitLong ==
    /\ scope = Scope([sessions |-> {"s1"}, paths |-> {"student.db"}, keys |-> {"key1"},
                      questions |-> {"List table names"}, views |-> {"chat"},
                      connects |-> ConnectResults \cup {"raise"},
                      constructs |-> ConstructResults,
                      outcomes |-> {"plain answer"}, elapsed |-> {1},
                      max_runs |-> MaxRunsLong, max_messages |-> MaxMessagesLong])
    /\ SessionInit
    /\ HarnessIdle

NextLong ==
    \/ SourceRunStep
    \/ ClearButtonStep
    \/ ChatSubmitStep
    \/ ConnectStep
    \/ ContinueStep
    \/ LookupStep
    \/ AgentReturnsStep
    \/ RecordResponseStep
    \/ LogErrorStep

SpecLong == InitLong /\ [][NextLong]_vars

(***************************************************************************)
(* Extraction harness: response texts are concatenations of at most        *)
(* MaxTokens lexemes, or of at most MaxTokensWide lexemes that hold the    *)
(* characters outside ASCII the patterns treat as letters of a keyword or  *)
(* as white space; one step applies extract_sql_query.                     *)
(***************************************************************************)

MaxTokens == 5

Lexemes ==
    { Fence \o SqlLabel,                       \* opening fence labelled sql
      Fence,                                   \* bare fence
      << "s", "e", "l", "e", "c", "t" >>,      \* keyword, lower case
      << "D", "E", "L", "E", "T", "E" >>,      \* another keyword, upper case
      << " " >>,
      << "\n" >>,
      << ";" >>,
      << "x" >> }

MaxTokensWide == 4

WideLexemes ==
    { Fence \o SqlLabel,
      Fence,
      << LongS, "e", "l", "e", "c", "t" >>,    \* keyword written with a long s
      << DottedI, "N", "S", "E", "R", "T" >>,  \* keyword written with a dotted I
      << "U+000B" >>,                          \* vertical tab
      << "U+00A0" >>,                          \* no-break space
      << ";" >>,
      << "x" >> }

InitExtract ==
    /\ scope = NoScope
    /\ SessionInit
    /\ \/ \E n \in 0..MaxTokens : \E parts \in [1..n -> Lexemes] :
                response_text = Concat(parts)
       \/ \E n \in 0..MaxTokensWide : \E parts \in [1..n -> WideLexemes] :
                response_text = Concat(parts)
    /\ sql_query = NoSql
    /\ extract_done = FALSE
    /\ hist = << >>
    /\ hist_next = 1
    /\ InfoIdle

ExtractStep ==
    /\ ~extract_done
    /\ sql_query' = extract_sql_query(response_text)
    /\ extract_done' = TRUE
    /\ UNCHANGED << scope, db_path, messages, db_engine, db_instance, current_db_path,
                    query_history, analytics, current_view, process_query, agent_cache,
                    agent_runs, run, last_run, response_text, hist, hist_next, info_in, info_out, info_done >>

SpecExtract == InitExtract /\ [][ExtractStep]_vars

(***************************************************************************)
(* History harness: one query history grown by HistoryAppend, entry by     *)
(* entry, past the eviction.                                               *)
(***************************************************************************)

MaxAppends == 160

InitHistory ==
    /\ scope = NoScope
    /\ SessionInit
    /\ response_text = << >>
    /\ sql_query = NoSql
    /\ extract_done = FALSE
    /\ hist = << >>
    /\ hist_next = 1
    /\ InfoIdle

HistoryStep ==
    /\ hist_next <= MaxAppends
    /\ hist' = HistoryAppend(hist, hist_next)
    /\ hist_next' = hist_next + 1
    /\ UNCHANGED << scope, db_path, messages, db_engine, db_instance, current_db_path,
                    query_history, analytics, current_view, process_query, agent_cache,
                    agent_runs, run, last_run, response_text, sql_query, extract_done,
                    info_in, info_out, info_done >>

SpecHistory == InitHistory /\ [][HistoryStep]_vars

(***************************************************************************)
(* Introspection harness: one call of get_database_info on a database of   *)
(* at most MaxTables tables, each count and each column listing failing    *)
(* or succeeding.                                                          *)
(***************************************************************************)

MaxTables == 2
MaxRows == 2

TableNames == << "students", "courses", "grades", "logs" >>
ColumnLists == {<< "id" >>, << "id", "name" >>}

InfoEnvs ==
    UNION {
        [inspect : {"ok"} \cup ErrorTexts,
         tables : {SubSeq(TableNames, 1, n)},
         count : [{TableNames[i] : i \in 1..n} -> [ok : BOOLEAN, n : 0..MaxRows]],
         columns : [{TableNames[i] : i \in 1..n} -> [ok : BOOLEAN, cols : ColumnLists]]]
        : n \in 0..MaxTables }

InitInfo ==
    /\ scope = NoScope
    /\ SessionInit
    /\ response_text = << >>
    /\ sql_query = NoSql
    /\ extract_done = FALSE
    /\ hist = << >>
    /\ hist_next = 1
    /\ info_in \in {e \in InfoEnvs :
                        \A t \in DOMAIN e.count :
                            /\ ~e.count[t].ok => e.count[t].n = 0
                            /\ ~e.columns[t].ok => e.columns[t].cols = << "id" >>}
    /\ info_out = NoInfo
    /\ info_done = FALSE

InfoStep ==
    /\ ~info_done
    /\ info_out' = get_database_info(info_in)
    /\ info_done' = TRUE
    /\ UNCHANGED << scope, db_path, messages, db_engine, db_instance, current_db_path,
                    query_history, analytics, current_view, process_query, agent_cache,
                    agent_runs, run, last_run, response_text, sql_query, extract_done,
                    hist, hist_next, info_in >>

SpecInfo == InitInfo /\ [][InfoStep]_vars

(***************************************************************************)
(* Displayed analytics (main, lines 495-511 and 708-724).  The quotients   *)
(* and rates of the code are Python floats (IEEE 754 binary64, every       *)
(* operation rounded to nearest, ties to even); they are computed here     *)
(* bit for bit.  A float is zero, or mant * 2^(exp - 52) with              *)
(* 2^52 <= mant < 2^53, negated when neg holds.  Numbers of up to 60       *)
(* bits are held in three limbs << hi, mid, lo >>, most significant first, *)
(* standing for (hi * Limb + mid) * Limb + lo with mid, lo < Limb.         *)
(* Operands are integers between -2^30 and 2^30; measured times are in     *)
(* whole units.                                                            *)
(***************************************************************************)

Limb == 262144       \* 2^18
Top == 131072        \* 2^17: a mantissa is below Top * Limb * Limb = 2^53

Number(k) == << 0, k \div Limb, k % Limb >>

Abs(k) == IF k < 0 THEN -k ELSE k

FloatZero == [neg |-> FALSE, exp |-> 0, mant |-> Number(0)]

\* 100.0 = 1.5625 * 2^6
Float100 == [neg |-> FALSE, exp |-> 6, mant |-> << 102400, 0, 0 >>]

\* The float of the magnitude m (exp and mant), negated when neg holds.
Signed(neg, m) == [neg |-> neg, exp |-> m.exp, mant |-> m.mant]

\* k * n + c for small k and c (k at most 128).
TimesPlus(n, k, c) ==
    LET lo == k * n[3] + c
        mid == k * n[2] + lo \div Limb
    IN  << k * n[1] + mid \div Limb, mid % Limb, lo % Limb >>

\* n \div d for a power of two d (at most Limb).
Drop(n, d) ==
    << n[1] \div d,
       (n[1] % d) * (Limb \div d) + n[2] \div d,
       (n[2] % d) * (Limb \div d) + n[3] \div d >>

\* n with its lowest bit dropped.
Half(n) == Drop(n, 2)

\* Round to nearest, ties to even: n is what is kept, guard the first bit
\* dropped, sticky whether any later dropped bit is 1.
RoundsUp(n, guard, sticky) == guard = 1 /\ (sticky \/ n[3] % 2 = 1)

\* The magnitude nearest to n * 2^(exp - 52), where n >= 2^52 and guard and
\* sticky describe what was dropped below n already.
RECURSIVE RoundTo53(_, _, _, _)
RoundTo53(n, exp, guard, sticky) ==
    IF n[1] >= Top
    THEN RoundTo53(Half(n), exp + 1, n[3] % 2, sticky \/ guard = 1)
    ELSE IF RoundsUp(n, guard, sticky)
         THEN LET up == TimesPlus(n, 1, 1)
              IN  IF up[1] >= Top THEN [exp |-> exp + 1, mant |-> Half(up)]
                  ELSE [exp |-> exp, mant |-> up]
         ELSE [exp |-> exp, mant |-> n]

\* Long division: n holds the quotient bits found, r the remainder, and the
\* quotient is (n + r / b) * 2^(exp - 52).  54 bits are produced (53 and
\* the guard), the remainder gives the sticky bit.  Seven bits are produced
\* at a time while seven are still to come and 128 * r is below 2^31, else
\* one.
RECURSIVE DivBits(_, _, _, _)
DivBits(n, r, b, exp) ==
    IF n[1] >= Top
    THEN RoundTo53(n, exp, 0, r # 0)
    ELSE IF (r = 0 \/ b < 16777216) /\ TimesPlus(n, 128, 0)[1] < Top
    THEN DivBits(TimesPlus(n, 128, (128 * r) \div b), (128 * r) % b, b, exp - 7)
    ELSE LET bit == IF 2 * r >= b THEN 1 ELSE 0
         IN  DivBits(TimesPlus(n, 2, bit), 2 * r - bit * b, b, exp - 1)

\* Python's a / b for a positive b: the float nearest to the quotient.
TrueDiv(a, b) ==
    IF a = 0 THEN FloatZero
    ELSE Signed(a < 0, DivBits(Number(Abs(a) \div b), Abs(a) % b, b, 52))

\* Python's x * 100 on a float.
Times100(x) ==
    IF x = FloatZero THEN FloatZero
    ELSE Signed(x.neg, RoundTo53(TimesPlus(x.mant, 100, 0), x.exp, 0, FALSE))

\* n / 2^s rounded to the nearest integer, ties to even.  While more than
\* eight bits are to go, eight are dropped at a time: they all end up below
\* the guard bit.
RECURSIVE ShiftRound(_, _, _, _)
ShiftRound(n, s, guard, sticky) ==
    IF s > 8 /\ n # Number(0)
    THEN ShiftRound(Drop(n, 256), s - 8, 0, sticky \/ guard = 1 \/ n[3] % 256 # 0)
    ELSE IF s > 0 /\ n # Number(0)
    THEN ShiftRound(Half(n), s - 1, n[3] % 2, sticky \/ guard = 1)
    ELSE IF s > 0 THEN Number(0)
    ELSE IF RoundsUp(n, guard, sticky) THEN TimesPlus(n, 1, 1)
    ELSE n

\* Python's f"{x:.1f}" (unit 10) and f"{x:.2f}" (unit 100): the number of
\* tenths or hundredths shown, the magnitude of x * unit rounded to the
\* nearest integer, ties to even, after a minus sign when x is negative.
Shown(neg, k) == [neg |-> neg, digits |-> Number(k)]
Fixed(x, unit) ==
    IF x = FloatZero THEN Shown(FALSE, 0)
    ELSE [neg |-> x.neg,
          digits |-> ShiftRound(TimesPlus(x.mant, unit, 0), 52 - x.exp, 0, FALSE)]

\* Python's a / b: ZeroDivisionError (fault) when b is 0.
NoQuotient == [fault |-> FALSE, value |-> FloatZero]
Quotient(a, b) ==
    IF b = 0 THEN [fault |-> TRUE, value |-> FloatZero]
    ELSE [fault |-> FALSE, value |-> TrueDiv(a, b)]

\* q * 100
Percent(q) == IF q.fault THEN q ELSE [q EXCEPT !.value = Times100(q.value)]

\* Lines 508-509 as a bug would have them: no max(..., 1) around the divisor.
SidebarSuccessRateAlt(a) == Percent(Quotient(a.successful_queries, a.total_queries))

\* Lines 508-509: successful_queries / max(total_queries, 1) * 100
SidebarSuccessRate(a) ==
    Percent(Quotient(a.successful_queries, Max({a.total_queries, 1})))

\* Line 713: total_response_time / total_queries
AvgResponseTime(a) == Quotient(a.total_response_time, a.total_queries)

\* Line 714: (successful_queries / total_queries) * 100
FooterSuccessRate(a) == Percent(Quotient(a.successful_queries, a.total_queries))

\* Lines 708-724: the footer, shown and computed only when total_queries > 0.
Footer(a) ==
    IF a.total_queries > 0
    THEN [shown |-> TRUE,
          avg_response_time |-> AvgResponseTime(a),
          success_rate |-> FooterSuccessRate(a)]
    ELSE [shown |-> FALSE, avg_response_time |-> NoQuotient,
          success_rate |-> NoQuotient]

(***************************************************************************)
(* Properties                                                              *)
(***************************************************************************)

IsPrefix(a, b) == Len(a) <= Len(b) /\ SubSeq(b, 1, Len(a)) = a

\* The kinds of the steps of a process_user_query call that has passed its
\* two checks, and those that end such a call.
CallKinds == {"called", "running", "returned", "failed", "agent_error", "raised",
              "answered", "executed"}
EndKinds == {"agent_error", "raised", "answered", "executed"}

\* Session s is about to hand its question to an agent, or the agent is at work.
AgentAtWork(s) == run[s].pc = "running" /\ run[s].agent.state = "agent"

\* C1: within one session, every query that reaches an agent is run by an
\* agent built for the database instance the session is connected to at that
\* time; after a change of data source no query is run by an agent bound to
\* an earlier connection.
AgentBoundToCurrentConnection ==
    \A s \in AllSessions :
        AgentAtWork(s) => run[s].agent.bound = db_instance[s]

\* C1, the case: a query answered by an agent built for a second connection,
\* made while the first was still in the session, after an earlier query.
AnsweredAfterSourceChange ==
    /\ last_run.kind = "answered"
    /\ db_instance["s1"] = Inst("uploaded.db", 2)
    /\ agent_cache["key1"] = AgentEntry(Inst("uploaded.db", 2))
    /\ agent_runs = 2
    /\ analytics["s1"].total_queries = 2

\* C2: with two sessions of one process that use the same API key, a query of
\* a session is always run by an agent bound to the data source that session
\* is connected to.
AgentBoundToOwnDataSource ==
    \A s \in AllSessions :
        AgentAtWork(s) => run[s].agent.bound.path = current_db_path[s]

\* C3: when a process_user_query call that passed its checks and appended the
\* user message has ended, and the next thing to happen in the session is a
\* call with the same question, that call appends no user message, whatever
\* the first call's outcome.
NoDuplicateUserMessage ==
    [][(/\ last_run.kind \in EndKinds
        /\ last_run.appended
        /\ last_run'.kind = "called"
        /\ last_run'.session = last_run.session
        /\ last_run'.input = last_run.input)
       => ~last_run'.appended]_vars

\* C4: every call of process_user_query that passes the checks adds exactly one
\* to total_queries, at the step that decides its outcome, also when the agent
\* cannot be built or agent.run raises; the other steps of the call and an
\* aborted call add nothing.
EveryCheckedCallCounted ==
    [][/\ last_run'.kind \in {"agent_error", "raised", "answered"} =>
            analytics'[last_run'.session].total_queries
                = analytics[last_run'.session].total_queries + 1
       /\ last_run'.kind \in {"aborted", "called", "running", "returned", "failed",
                             "executed"} =>
            analytics'[last_run'.session].total_queries
                = analytics[last_run'.session].total_queries]_vars

\* C5: a call of process_user_query with an empty API key, or while db_engine
\* or db_instance is unset, aborts: the session's message log, query history
\* and analytics stay as they were, no agent is looked up or built, none is
\* called, and the run has ended.
AbortChangesNothing ==
    [][\A s \in AllSessions :
        (/\ last_run'.session = s
         /\ last_run'.kind \in {"aborted", "called"}
         /\ \/ last_run'.no_key
            \/ db_engine'[s] = NoInst
            \/ db_instance'[s] = NoInst)
        => /\ last_run'.kind = "aborted"
           /\ messages'[s] = messages[s]
           /\ query_history'[s] = query_history[s]
           /\ analytics'[s] = analytics[s]
           /\ agent_runs' = agent_runs
           /\ agent_cache' = agent_cache
           /\ run'[s].pc = "idle"]_vars

\* C5, the case: a question asked without a key in a connected session that
\* already has an answered query.
AbortedWithoutKey ==
    /\ last_run.kind = "aborted"
    /\ last_run.no_key
    /\ last_run.input \in Questions
    /\ db_instance["s1"] # NoInst
    /\ Len(query_history["s1"]) = 1

\* C6: appending to a history of 100 entries gives exactly 50 entries: the 49
\* most recent of the old ones, in their order, then the appended one;
\* appending to a shorter history only adds the entry at the end.
HistoryEviction ==
    [][/\ Len(hist) <= 100
       /\ Len(hist) = 100 =>
            /\ Len(hist') = 50
            /\ \A i \in 1..49 : hist'[i] = hist[i + 51]
            /\ hist'[50] = hist_next
       /\ Len(hist) < 100 =>
            /\ Len(hist') = Len(hist) + 1
            /\ \A i \in 1..Len(hist) : hist'[i] = hist[i]
            /\ hist'[Len(hist) + 1] = hist_next]_vars

\* C6, the case: the history right after the 101st append.
HistoryJustEvicted ==
    /\ hist_next = 102
    /\ Len(hist) = 50
    /\ hist[1] = 52
    /\ hist[50] = 101

\* Clear Chat History acted in this step of session s.
Cleared(s) == last_run'.kind = "clear" /\ last_run'.session = s

\* C7: the message log always starts with the welcome message; Clear Chat
\* History cuts it to that first message, and every other step leaves the old
\* log a prefix of the new one.
MessageLogAppendOnly ==
    [][\A s \in AllSessions :
        /\ messages[s] # << >>
        /\ messages[s][1] = WelcomeMessage
        /\ messages'[s] # << >>
        /\ messages'[s][1] = WelcomeMessage
        /\ IF Cleared(s)
           THEN messages'[s] = << messages[s][1] >>
           ELSE IsPrefix(messages[s], messages'[s])]_vars

\* C7, the case: the log cut back to the welcome message after an answer.
ClearedAfterAnswer ==
    /\ last_run.kind = "clear"
    /\ messages["s1"] = << WelcomeMessage >>
    /\ Len(query_history["s1"]) >= 1

\* C8: no step lowers a session's total_queries, successful_queries or
\* total_response_time.
CountersNeverDecrease ==
    [][\A s \in AllSessions :
        /\ analytics'[s].total_queries >= analytics[s].total_queries
        /\ analytics'[s].successful_queries >= analytics[s].successful_queries
        /\ analytics'[s].total_response_time >= analytics[s].total_response_time]_vars

\* The fenced block labelled sql of a text, read off the text: the leftmost
\* opening fence that has a closing fence after it, up to the first such
\* closing fence.
IsAt(text, i, lit) ==
    /\ i >= 1
    /\ i + Len(lit) - 1 <= Len(text)
    /\ SubSeq(text, i, i + Len(lit) - 1) = lit

BlockOpenings(text) ==
    {i \in 1..Len(text) :
        /\ IsAt(text, i, Fence \o SqlLabel)
        /\ \E j \in (i + 6)..Len(text) : IsAt(text, j, Fence)}

HasFencedSql(text) == BlockOpenings(text) # {}

BlockStart(text) == Min(BlockOpenings(text))

BlockClose(text) == Min({j \in (BlockStart(text) + 6)..Len(text) : IsAt(text, j, Fence)})

Interior(text) == SubSeq(text, BlockStart(text) + 6, BlockClose(text) - 1)

\* s without its leading and trailing whitespace.
Trimmed(s) ==
    LET cuts == {c \in (1..(Len(s) + 1)) \X (0..Len(s)) :
                    /\ c[1] <= c[2] + 1
                    /\ \A i \in 1..(c[1] - 1) : IsSpace(s[i])
                    /\ \A i \in (c[2] + 1)..Len(s) : IsSpace(s[i])
                    /\ c[1] <= c[2] => ~IsSpace(s[c[1]]) /\ ~IsSpace(s[c[2]])}
        cut == CHOOSE c \in cuts : TRUE
    IN  SubSeq(s, cut[1], cut[2])

EndsWith(s, c) == s # << >> /\ s[Len(s)] = c

EndsInSpace(s) == s # << >> /\ IsSpace(s[Len(s)])

\* The trimmed interior of the block, less one trailing semicolon.
BlockContent(text) ==
    LET t == Trimmed(Interior(text))
    IN  IF EndsWith(t, ";") THEN SubSeq(t, 1, Len(t) - 1) ELSE t

\* The word select followed by whitespace, outside the fenced block.
BareSelectOutside(text) ==
    \E k \in 1..Len(text) :
        /\ IsAt(text, k, << "s", "e", "l", "e", "c", "t" >>)
        /\ k + 6 <= Len(text)
        /\ IsSpace(text[k + 6])
        /\ \/ k + 6 < BlockStart(text)
           \/ k > BlockClose(text) + 2

\* C9: for a text with a fenced block labelled sql and a bare select statement
\* before or after the block, the result is the content of the block.
FencedBlockWins ==
    (extract_done /\ HasFencedSql(response_text) /\ BareSelectOutside(response_text))
        => sql_query = SomeSql(BlockContent(response_text))

\* C9, the case: a bare select before a non-empty block, the block returned.
FencedBlockAfterBareSelect ==
    /\ extract_done
    /\ HasFencedSql(response_text)
    /\ BareSelectOutside(response_text)
    /\ BlockStart(response_text) > 1
    /\ sql_query = SomeSql(<< "x" >>)

\* C10 as stated: for a text with a fenced block labelled sql the result is
\* the trimmed interior of the first block less at most one trailing
\* semicolon, and it never ends in whitespace.
FencedContentNoTrailingSpace ==
    (extract_done /\ HasFencedSql(response_text))
        => /\ sql_query = SomeSql(BlockContent(response_text))
           /\ ~EndsInSpace(sql_query.text)

\* C10 as amended: for a text with a fenced block labelled sql the result is
\* the trimmed interior of the first block less at most one trailing
\* semicolon; it ends in whitespace only where that whitespace stood before
\* the removed semicolon.
FencedContentTrimmed ==
    (extract_done /\ HasFencedSql(response_text))
        => /\ sql_query = SomeSql(BlockContent(response_text))
           /\ EndsInSpace(sql_query.text)
                => Trimmed(Interior(response_text)) = sql_query.text \o << ";" >>

\* C10, the case: whitespace before the semicolon stays in the result.
SpaceBeforeSemicolonKept ==
    /\ extract_done
    /\ HasFencedSql(response_text)
    /\ sql_query = SomeSql(<< "x", " " >>)

\* C11: whenever extract_sql_query returns a statement rather than None, the
\* statement is non-empty text.
ReturnedStatementNonEmpty ==
    (extract_done /\ sql_query.some) => sql_query.text # << >>

\* The literal lit stands in text at position i, letters compared without case.
IsAtAnyCase(text, i, lit) ==
    /\ i >= 1
    /\ i + Len(lit) - 1 <= Len(text)
    /\ \A j \in 1..Len(lit) : Fold(text[i + j - 1]) = Fold(lit[j])

\* An opening fence labelled sql with a closing fence somewhere after it.
ContainsFencedSql(text) ==
    \E i \in 1..Len(text) :
        /\ IsAtAnyCase(text, i, Fence \o SqlLabel)
        /\ \E j \in (i + 6)..Len(text) : IsAt(text, j, Fence)

\* A fence, optional whitespace, the word SELECT, and a fence after the word.
ContainsSelectBlock(text) ==
    \E i \in 1..Len(text) : \E p \in (i + 3)..Len(text) :
        /\ IsAt(text, i, Fence)
        /\ \A k \in (i + 3)..(p - 1) : IsSpace(text[k])
        /\ IsAtAnyCase(text, p, KwSelect)
        /\ \E j \in (p + 6)..Len(text) : IsAt(text, j, Fence)

\* One of the four keywords directly followed by whitespace.
ContainsKeywordAndSpace(text) ==
    \E kw \in {KwSelect, KwInsert, KwUpdate, KwDelete} : \E i \in 1..Len(text) :
        /\ IsAtAnyCase(text, i, kw)
        /\ i + 6 <= Len(text)
        /\ IsSpace(text[i + 6])

\* C12: for a text with no fenced sql block, no code block beginning with
\* SELECT and no SELECT/INSERT/UPDATE/DELETE followed by whitespace,
\* extract_sql_query returns None.
NothingRecognisableGivesNone ==
    (/\ extract_done
     /\ ~ContainsFencedSql(response_text)
     /\ ~ContainsSelectBlock(response_text)
     /\ ~ContainsKeywordAndSpace(response_text))
        => sql_query = NoSql

\* C12, the case: a text that holds a fence and both keywords, but none of
\* the recognised shapes, gave None.
KeywordsWithoutStatement ==
    /\ extract_done
    /\ sql_query = NoSql
    /\ ~ContainsFencedSql(response_text)
    /\ ~ContainsSelectBlock(response_text)
    /\ ~ContainsKeywordAndSpace(response_text)
    /\ \E i \in 1..Len(response_text) : IsAt(response_text, i, Fence \o SqlLabel)
    /\ \E i \in 1..Len(response_text) : IsAtAnyCase(response_text, i, KwSelect)
    /\ \E i \in 1..Len(response_text) : IsAtAnyCase(response_text, i, KwDelete)

\* setup_database returned an error in this step of session s: the
\* connection or its probe failed.
ConnectFailed(s) ==
    /\ last_run'.session = s
    /\ last_run'.kind \in {"connect_failed", "connect_silent"}

\* C13: when a connection fails, setup_database returns a non-empty error
\* string, and the session is left with db_engine, db_instance and
\* current_db_path unset and with its analytics, query history and messages
\* as they were.
FailedConnectUnsetsSession ==
    [][\A s \in AllSessions :
        ConnectFailed(s) =>
            /\ last_run'.kind = "connect_failed"
            /\ db_engine'[s] = NoInst
            /\ db_instance'[s] = NoInst
            /\ current_db_path'[s] = None
            /\ analytics'[s] = analytics[s]
            /\ query_history'[s] = query_history[s]
            /\ messages'[s] = messages[s]]_vars

\* The tables the database reported in the call.
Discovered == {info_in.tables[i] : i \in 1..Len(info_in.tables)}

\* The count or the column listing of table t failed.
TableFailed(t) == ~info_in.count[t].ok \/ ~info_in.columns[t].ok

\* C14: when the tables can be listed, get_database_info returns no error and
\* a snapshot with one entry per discovered table: {columns: empty,
\* row_count: 0} for a table whose count or column listing failed, and the
\* table's own columns and count for every other table, whatever happened to
\* the tables around it.
PerTableFailureIsolated ==
    (info_done /\ info_in.inspect = "ok") =>
        /\ info_out.error = None
        /\ DOMAIN info_out.schema_info = Discovered
        /\ \A t \in Discovered :
            info_out.schema_info[t] =
                IF TableFailed(t)
                THEN [columns |-> << >>, row_count |-> 0]
                ELSE [columns |-> info_in.columns[t].cols,
                      row_count |-> info_in.count[t].n]

\* C14, the case: two tables, the first failing at the column listing, the
\* second intact with its rows.
OneTableFailedOtherIntact ==
    /\ info_done
    /\ info_in.inspect = "ok"
    /\ Len(info_in.tables) = 2
    /\ info_in.count["students"].ok
    /\ ~info_in.columns["students"].ok
    /\ ~TableFailed("courses")
    /\ info_out.schema_info["students"].row_count = 0
    /\ info_out.schema_info["courses"].row_count = 2

\* The sum of the row_count values of a snapshot.
RECURSIVE SumRowCounts(_, _)
SumRowCounts(schema, ts) ==
    IF ts = {} THEN 0
    ELSE LET t == CHOOSE x \in ts : TRUE
         IN  schema[t].row_count + SumRowCounts(schema, ts \ {t})

\* C18: the total record count get_database_info returns is the sum of the
\* row_count values of the snapshot it returns.
TotalIsSumOfRowCounts ==
    info_done =>
        info_out.total_records
            = SumRowCounts(info_out.schema_info, DOMAIN info_out.schema_info)

\* The analytics that MaxRuns calls of agent.run can leave, and what the
\* sidebar (lines 508-510) and the footer (lines 708-724) compute and show
\* for each of them.
Ledgers ==
    [total_queries : 0..MaxRuns, successful_queries : 0..MaxRuns,
     total_response_time :
        (MaxRuns * Min(ExecutionTimes))..(MaxRuns * Max(ExecutionTimes))]
\* (<< >> @@ f is f as a table, computed once)
Displayed ==
    << >> @@
    [a \in Ledgers |->
        LET side == SidebarSuccessRate(a)
            foot == Footer(a)
        IN  [side |-> side, side_text |-> Fixed(side.value, 10),
             foot |-> foot, foot_text |-> Fixed(foot.success_rate.value, 10)]]

\* C15: no success rate or average divides by zero: the sidebar's rate is
\* always computed without fault and is 0.0, shown as 0.0%, while
\* total_queries is 0, and the footer is computed exactly when total_queries
\* is greater than 0.
RatesNeverDivideByZero ==
    \A s \in AllSessions :
        LET d == Displayed[analytics[s]]
        IN  /\ ~d.side.fault
            /\ analytics[s].total_queries = 0 =>
                    /\ d.side.value = FloatZero
                    /\ d.side_text = Shown(FALSE, 0)
            /\ d.foot.shown <=> analytics[s].total_queries > 0
            /\ ~d.foot.avg_response_time.fault
            /\ ~d.foot.success_rate.fault

\* C15, the case: a connected session (the sidebar shows the rate) that has
\* asked a question and still counts no query.
StatsShownWithoutQueries ==
    /\ db_engine["s1"] # NoInst
    /\ analytics["s1"].total_queries = 0
    /\ last_run.kind = "agent_error"
    /\ Len(messages["s1"]) = 2

\* C16: a query history never holds more than 100 entries where a run waits
\* or can be stopped, and Clear Chat History leaves it as it is.
HistoryBoundedAndKeptByClear ==
    [][\A s \in AllSessions :
        /\ Len(query_history[s]) <= 100
        /\ Len(query_history'[s]) <= 100
        /\ Cleared(s) => query_history'[s] = query_history[s]]_vars

\* C16, the case: the history cut to 50 by the 101st answer, the log cleared
\* after it.
HistoryCutThenCleared ==
    /\ last_run.kind = "clear"
    /\ analytics["s1"].total_queries = 101
    /\ Len(query_history["s1"]) = 50
    /\ messages["s1"] = << WelcomeMessage >>

\* C17: successful_queries equals total_queries in every state, whether or
\* not a statement was extracted and whatever its re-execution gave; the
\* rate is 0.0 or 100.0 and is displayed as 0.0% or 100.0%.
SuccessfulEqualsTotal ==
    \A s \in AllSessions :
        LET d == Displayed[analytics[s]]
        IN  /\ analytics[s].successful_queries = analytics[s].total_queries
            /\ d.side.value \in {FloatZero, Float100}
            /\ d.side_text \in {Shown(FALSE, 0), Shown(FALSE, 1000)}
            /\ d.foot.success_rate.value \in {FloatZero, Float100}
            /\ d.foot_text \in {Shown(FALSE, 0), Shown(FALSE, 1000)}

\* C17, the case: one answer without a statement, then one with a statement
\* whose re-execution gave no table, both counted as successful.
CountedDespiteNoResult ==
    /\ Len(query_history["s1"]) = 2
    /\ ~query_history["s1"][1].sql_query.some
    /\ query_history["s1"][2].sql_query.some
    /\ Len(messages["s1"]) = 5
    /\ messages["s1"][5].dataframe = None
    /\ analytics["s1"].total_queries = 2
    /\ analytics["s1"].successful_queries = 2

====
